---- MODULE Spec2Model ----
(***************************************************************************)
(* Model of the Google Books harvesting scripts.                           *)
(*                                                                         *)
(* gbooks_json_all-authors.py: the batch script.  Its module-level code is *)
(* the orchestrator (setup, the loop over all_authors, the final summary)  *)
(* and fetch_all_books_for_author is the pagination controller.  The loop  *)
(* of gbooks_json-1author.py is the same controller written inline.        *)
(*                                                                         *)
(* The remote catalog is the environment: every answer to an HTTP request  *)
(* (an exception raised by requests.get, or a response with a status, a    *)
(* totalItems value and a list of items) is chosen nondeterministically.   *)
(* A response body is taken to be a JSON object; a key that is absent      *)
(* reads as the default the code passes to .get (totalItems 0, items []).  *)
(* An item is represented by its position in the catalog's result list:    *)
(* the page at startIndex s carrying n items carries items s+1 .. s+n.     *)
(* time.sleep and print are not modelled.                                  *)
(***************************************************************************)
EXTENDS Integers, Sequences, FiniteSets, TLC

\* ------------------------------------------------------------------ bounds

\* The while loop of the controller has no bound of its own: the model stops
\* issuing regular page requests after MaxPages of them.
MaxPages == 3

\* ------------------------------------------------------- program constants

BATCH_SIZE == 20

None == "None"

\* ------------------------------------------------------------- input sets

\* totalItems values the catalog may advertise.
Totals == {0, 7, 45}

\* Numbers of items a regular page response may carry.
Counts == {0, 5, 20}

\* Numbers of items the response to a rescue request may carry.
RescueCounts == {0, 7}

\* totalItems values the response to a rescue request may advertise.
RescueTotals == {0, 45}

\* HTTP statuses of a response.
Statuses == {200, 400}

\* Author bindings of the input file.  keys are the keys the binding has;
\* authorLabel is the display name as its list of space-separated words and
\* viaf the authority identifier, each read only when its key is present.
Bolivar ==
  [keys |-> {"authorLabel", "viaf"}, authorLabel |-> <<"Simon", "Bolivar">>,
   viaf |-> "71392434"]

Gallegos ==
  [keys |-> {"authorLabel"}, authorLabel |-> <<"Romulo", "Gallegos">>,
   viaf |-> None]

Unlabelled ==
  [keys |-> {"viaf"}, authorLabel |-> <<>>, viaf |-> "12345"]

\* The author lists the input file may hold.
AuthorLists ==
  { <<Bolivar>>, <<Bolivar, Gallegos>>, <<Unlabelled, Bolivar>>,
    <<Gallegos, Unlabelled, Bolivar>> }

\* ---------------------------------------------------------------- helpers

RECURSIVE JoinWords(_, _)
\* The words of a name joined by a separator.
JoinWords(words, sep) ==
  IF Len(words) = 0 THEN ""
  ELSE IF Len(words) = 1 THEN words[1]
  ELSE words[1] \o sep \o JoinWords(Tail(words), sep)

\* The display name: author_entry['authorLabel']['value'].
NameOf(words) == JoinWords(words, " ")

\* urllib.parse.quote(author_name): a space becomes %20.
quote(words) == JoinWords(words, "%20")

\* author_name.replace(' ', '_').
SafeName(words) == JoinWords(words, "_")

\* The request URL, by its query parameters (the key is the same in all).
Url(encoded_name, max_results, start) ==
  [q |-> "inauthor:\"" \o encoded_name \o "\"", maxResults |-> max_results,
   startIndex |-> start]

\* A variable that holds a URL or None: NoUrl is None, <<u>> the URL u.
NoUrl == <<>>

\* The items a response to a request at offset start carries when it carries n.
ItemsAt(start, n) == [i \in 1..n |-> start + i]

\* What requests.get(...) can do for a regular page request or a rescue
\* request: raise (timeout, connection error), or deliver a response.
Raised == [kind |-> "exception"]

Response(status, total, items) ==
  [kind |-> "response", status |-> status, totalItems |-> total, items |-> items]

PageOutcomes(start) ==
  {Raised} \cup
  {Response(s, t, ItemsAt(start, n)) : s \in Statuses, t \in Totals, n \in Counts}

RescueOutcomes(start) ==
  {Raised} \cup
  {Response(s, t, ItemsAt(start, n)) :
     s \in Statuses, t \in RescueTotals, n \in RescueCounts}

\* response.raise_for_status(): raises HTTPError for a 4xx or 5xx status.
RaisesForStatus(status) == status >= 400 /\ status < 600

\* An HTTP exchange: the request as sent and what came of it.
Pending == [kind |-> "pending"]

Exchange(kind, url) == [kind |-> kind, url |-> url, outcome |-> Pending]

Answer(net, outcome) == [net EXCEPT ![Len(net)].outcome = outcome]

\* ------------------------------------------- the pagination controller
\* fetch_all_books_for_author.  Its locals are the record l; pc is the place
\* the call has reached: "request" (top of the while loop), "await" (the
\* regular page request is out), "rescue" (the rescue request is out),
\* "final" (the loop is left, final_data not yet built), "idle" (no call).
\* A call state cs is the locals l together with net, the HTTP exchanges of
\* the call in issue order.

NoCall ==
  [author_name |-> None, author_viaf |-> None, encoded_name |-> None,
   safe_name |-> None, all_items |-> <<>>, start_index |-> 0,
   request_count |-> 0, request_urls |-> <<>>, first_request_url |-> NoUrl,
   initial_total_estimate |-> 0, current_total_estimate |-> 0,
   current_items |-> <<>>, fetched_count |-> 0, pc |-> "idle"]

\* Entry of the function: the locals before the loop.
InitLocals(words, viaf) ==
  [NoCall EXCEPT !.author_name = NameOf(words), !.author_viaf = viaf,
                 !.encoded_name = quote(words), !.safe_name = SafeName(words),
                 !.pc = "request"]

\* The URL of the regular page request of this iteration.
CurrentUrl(l) == Url(l.encoded_name, BATCH_SIZE, l.start_index)

\* Mutant of RescueUrl: the limit is the first page's total.
RescueUrl_InitialTotal(l) ==
  Url(l.encoded_name, l.initial_total_estimate, l.start_index)

\* The URL of the rescue request: same offset, maxResults = the total the
\* empty page advertised.
RescueUrl(l) == Url(l.encoded_name, l.current_total_estimate, l.start_index)

\* Top of the loop body up to the request going out.
LoopTop(cs) ==
  [l |-> [cs.l EXCEPT !.request_count = @ + 1,
                      !.request_urls = Append(@, CurrentUrl(cs.l)),
                      !.first_request_url =
                         IF @ = NoUrl THEN <<CurrentUrl(cs.l)>> ELSE @,
                      !.pc = "await"],
   net |-> Append(cs.net, Exchange("page", CurrentUrl(cs.l)))]

\* The try block of the regular request raises RequestException.
RequestFailed(o) ==
  o.kind = "exception" \/ RaisesForStatus(o.status)

\* Mutant of OnRequestException: the failed request is tried again.
OnRequestException_Retry(l) == [l EXCEPT !.pc = "request"]

\* Mutant of OnRequestException: the items gathered so far are given up.
OnRequestException_Drop(l) == [l EXCEPT !.all_items = <<>>, !.pc = "final"]

\* except RequestException: break.
OnRequestException(l) == [l EXCEPT !.pc = "final"]

\* current_total_estimate, current_items, fetched_count of the response.
ReadPage(l, o) ==
  [l EXCEPT !.current_total_estimate = o.totalItems,
            !.current_items = o.items,
            !.fetched_count = Len(o.items)]

\* Mutant of RecordInitialTotal: the total of every page is recorded.
RecordInitialTotal_Always(l) ==
  [l EXCEPT !.initial_total_estimate = l.current_total_estimate]

\* if request_count == 1: initial_total_estimate = current_total_estimate.
RecordInitialTotal(l) ==
  IF l.request_count = 1
  THEN [l EXCEPT !.initial_total_estimate = l.current_total_estimate]
  ELSE l

\* Mutant of TerminationRule1: stop only when the page is empty as well.
TerminationRule1_AndEmpty(l) ==
  l.current_total_estimate = 0 /\ l.fetched_count = 0

\* TERMINATION RULE 1.
TerminationRule1(l) == l.current_total_estimate = 0

\* BUG WORKAROUND condition: empty items list but totalItems > 0.
EmptyPage(l) == l.fetched_count = 0 /\ l.current_total_estimate > 0

\* Mutant of StartRescue: the loop does not wait for the rescue's answer.
StartRescue_NoWait(cs) ==
  [l |-> [cs.l EXCEPT !.request_urls = Append(@, RescueUrl(cs.l)),
                      !.pc = "final"],
   net |-> Append(cs.net, Exchange("rescue", RescueUrl(cs.l)))]

\* Mutant of StartRescue: the rescue request goes out without being logged.
StartRescue_Unlogged(cs) ==
  [l |-> [cs.l EXCEPT !.pc = "rescue"],
   net |-> Append(cs.net, Exchange("rescue", RescueUrl(cs.l)))]

\* The rescue request is logged and goes out.
StartRescue(cs) ==
  [l |-> [cs.l EXCEPT !.request_urls = Append(@, RescueUrl(cs.l)),
                      !.pc = "rescue"],
   net |-> Append(cs.net, Exchange("rescue", RescueUrl(cs.l)))]

\* NORMAL CASE: if fetched_count > 0: all_items.extend(current_items).
NormalCase(l) ==
  IF l.fetched_count > 0
  THEN [l EXCEPT !.all_items = @ \o l.current_items]
  ELSE l

\* Mutant of TerminationRule2: a partial page does not end the loop.
TerminationRule2_Never(l) == FALSE

\* Mutant of TerminationRule2: stop once the advertised total is reached.
TerminationRule2_ByTotal(l) == Len(l.all_items) >= l.current_total_estimate

\* TERMINATION RULE 2: natural end (partial page).
TerminationRule2(l) == l.fetched_count < BATCH_SIZE

\* Mutant of NextPage: the offset counts pages, not items.
NextPage_ByOne(l) == [l EXCEPT !.start_index = @ + 1, !.pc = "request"]

\* Prepare for next page.
NextPage(l) == [l EXCEPT !.start_index = @ + BATCH_SIZE, !.pc = "request"]

\* The loop body from the response on, for a response that was read.
EvaluatePage(cs) ==
  IF TerminationRule1(cs.l) THEN [cs EXCEPT !.l.pc = "final"]
  ELSE IF EmptyPage(cs.l) THEN StartRescue(cs)
  ELSE LET l3 == NormalCase(cs.l)
       IN  IF TerminationRule2(l3) THEN [cs EXCEPT !.l = [l3 EXCEPT !.pc = "final"]]
           ELSE [cs EXCEPT !.l = NextPage(l3)]

\* The regular page request comes back with outcome o.
OnPageOutcome(cs, o) ==
  LET answered == [cs EXCEPT !.net = Answer(cs.net, o)]
  IN  IF RequestFailed(o)
      THEN [answered EXCEPT !.l = OnRequestException(cs.l)]
      ELSE EvaluatePage([answered EXCEPT !.l = RecordInitialTotal(ReadPage(cs.l, o))])

\* The try block of the rescue request raises RequestException: only
\* requests.get can, the status is not looked at.
RescueFailed(o) == o.kind = "exception"

\* Mutant of OnRescueException: the items gathered so far are given up.
OnRescueException_Drop(l) == [l EXCEPT !.all_items = <<>>]

\* except RequestException: the failure is printed.
OnRescueException(l) == l

\* Mutant of RescueItems: the rescue items replace the accumulated ones.
RescueItems_Assign(l, o) ==
  IF Len(o.items) > 0 THEN [l EXCEPT !.all_items = o.items] ELSE l

\* if rescue_items: all_items.extend(rescue_items).
RescueItems(l, o) ==
  IF Len(o.items) > 0 THEN [l EXCEPT !.all_items = @ \o o.items] ELSE l

\* break  # Stop after rescue attempt.
AfterRescue(l) == [l EXCEPT !.pc = "final"]

\* The rescue request comes back with outcome o.
OnRescueOutcome(cs, o) ==
  [l |-> AfterRescue(IF RescueFailed(o) THEN OnRescueException(cs.l)
                     ELSE RescueItems(cs.l, o)),
   net |-> Answer(cs.net, o)]

\* final_data.
FinalData(l) ==
  [getRequest |-> l.first_request_url,
   _requestUrls |-> l.request_urls,
   _totalQueriedItems |-> l.initial_total_estimate,
   _totalFetchedItems |-> Len(l.all_items),
   _totalRequestsMade |-> l.request_count,
   _batchSizeUsed |-> BATCH_SIZE,
   items |-> l.all_items]

\* return safe_name, author_viaf, final_data.
ReturnValue(l) ==
  [safe_name |-> l.safe_name, viaf |-> l.author_viaf, final_data |-> FinalData(l)]

\* ------------------------------------------------------------------ state

VARIABLES
  API_KEY,       \* TRUE iff GOOGLE_BOOKS_API_KEY is set in the environment
  all_authors,   \* the author bindings loaded from the input file
  opc,           \* where the script is: "setup", "loop" (top of the for loop),
                 \* "fetch" (inside fetch_all_books_for_author), "save" (the
                 \* call has returned), "done", "exit" (exit() in the setup),
                 \* "crashed" (an exception nobody catches)
  idx,           \* the for loop's index into all_authors
  fn,            \* the locals of the call of fetch_all_books_for_author
  net,           \* the HTTP exchanges of that call, in issue order
  ret,           \* what the call returned: <<>> or <<ReturnValue>>
  files,         \* the per-author output files written: filename -> content
  summary_data,  \* summary_data["authorsProcessed"]
  log,           \* the lines of the run log
  summary_file,  \* _processing_summary.json: <<>> or <<content>>
  printed,       \* the "Failed to save file" lines printed, by filename (the
                 \* other prints are not modelled)
  twin,          \* two calls run side by side, for comparing runs
  \* parser_test.py, parse_json_file:
  ppc,           \* where the parser is: "off", "open" (the file is to be
                 \* read), "loop" (the for loop over the items), "returned"
  data,          \* the JSON file being parsed
  target_author, \* the author detected in the file's request URL
  item_index,    \* i of the for loop: the number of items gone through
  include_item,  \* should_include_item's verdict in the last iteration
  is_a_match,    \* is_match's verdict in the last iteration
  record,        \* the last iteration's record: <<>> or <<record>>
  matches_records,
  non_matches_records,
  excluded_count,
  now,           \* the clock, as datetime.now() last read it
  parse_errors,  \* the items the loop printed "Error parsing item" for
  zpc,           \* where convert_csv_to_rdf is: "off", "start", "rows",
                 \* "written"
  reader,        \* the rows of the CSV file and how many have been read
  converter      \* the ZoteroCSVtoRDFConverter object: root and counters

vars ==
  <<API_KEY, all_authors, opc, idx, fn, net, ret, files, summary_data, log,
    summary_file, printed, twin, ppc, data, target_author, item_index,
    include_item,
    is_a_match, record, matches_records, non_matches_records, excluded_count,
    now, parse_errors, zpc, reader, converter>>

parser_vars ==
  <<ppc, data, target_author, item_index,
    include_item, is_a_match, record,
    matches_records, non_matches_records, excluded_count, now,
    parse_errors>>

converter_vars == <<zpc, reader, converter>>

orchestrator_vars ==
  <<API_KEY, all_authors, opc, idx, fn, net, ret, files, summary_data, log,
    summary_file, printed>>

\* No call on either side.
NoTwin == [a |-> [l |-> NoCall, net |-> <<>>], b |-> [l |-> NoCall, net |-> <<>>]]

\* ZoteroCSVtoRDFConverter.__init__.
NewConverter ==
  [root |-> <<>>, item_counter |-> 1, note_counter |-> 1,
   attachment_counter |-> 1]

\* The converter has not been started.
ConverterOff ==
  /\ zpc = "off"
  /\ reader = [rows |-> <<>>, pos |-> 0]
  /\ converter = NewConverter

\* The parser has not been started.
ParserOff ==
  /\ ppc = "off"
  /\ data = <<>>
  /\ target_author = <<>>
  /\ item_index = 0
  /\ include_item = FALSE
  /\ is_a_match = FALSE
  /\ record = <<>>
  /\ matches_records = <<>>
  /\ non_matches_records = <<>>
  /\ excluded_count = 0
  /\ now = 0
  /\ parse_errors = <<>>

Init ==
  /\ ParserOff
  /\ ConverterOff
  /\ API_KEY \in BOOLEAN
  /\ all_authors = <<>>
  /\ opc = "setup"
  /\ idx = 0
  /\ fn = NoCall
  /\ net = <<>>
  /\ ret = <<>>
  /\ files = <<>>
  /\ summary_data = <<>>
  /\ log = <<>>
  /\ summary_file = <<>>
  /\ printed = <<>>
  /\ twin = NoTwin

\* ------------------------------------------------------- the orchestrator

\* Mutant of KeyMissing: the key is not looked at.
KeyMissing_Never == FALSE

\* if not API_KEY.
KeyMissing == ~API_KEY

\* CONFIGURATION and SETUP: without the key the script exits; so it does
\* when the input file cannot be loaded.
Setup ==
  /\ opc = "setup"
  /\ \/ /\ KeyMissing
        /\ opc' = "exit"
        /\ UNCHANGED all_authors
     \/ /\ ~KeyMissing
        /\ \/ /\ opc' = "exit"
              /\ UNCHANGED all_authors
           \/ /\ \E list \in AuthorLists : all_authors' = list
              /\ opc' = "loop"
  /\ UNCHANGED <<API_KEY, idx, fn, net, ret, files, summary_data, log,
                 summary_file, printed, twin, parser_vars, converter_vars>>

\* author_entry of this iteration.
author_entry == all_authors[idx + 1]

\* author_entry.get('viaf', {}).get('value', f'NO_VIAF_{idx}').
ViafOf(entry, i) ==
  IF "viaf" \in entry.keys THEN entry.viaf ELSE "NO_VIAF_" \o ToString(i)

\* except KeyError: continue.
SkipEntry ==
  /\ opc = "loop"
  /\ idx < Len(all_authors)
  /\ "authorLabel" \notin author_entry.keys
  /\ idx' = idx + 1
  /\ UNCHANGED <<API_KEY, all_authors, opc, fn, net, ret, files, summary_data,
                 log, summary_file, printed, twin, parser_vars, converter_vars>>

\* fetch_all_books_for_author(author_name, author_viaf) is called.
CallFetch ==
  /\ opc = "loop"
  /\ idx < Len(all_authors)
  /\ "authorLabel" \in author_entry.keys
  /\ fn' = InitLocals(author_entry.authorLabel, ViafOf(author_entry, idx))
  /\ net' = <<>>
  /\ opc' = "fetch"
  /\ UNCHANGED <<API_KEY, all_authors, idx, ret, files, summary_data, log,
                 summary_file, printed, twin, parser_vars, converter_vars>>

\* The call in progress as a call state.
Call == [l |-> fn, net |-> net]

\* One more iteration of the while loop begins: the page request goes out.
SendRequest ==
  /\ opc = "fetch"
  /\ fn.pc = "request"
  /\ fn.request_count < MaxPages
  /\ fn' = LoopTop(Call).l
  /\ net' = LoopTop(Call).net
  /\ UNCHANGED <<API_KEY, all_authors, opc, idx, ret, files, summary_data, log,
                 summary_file, printed, twin, parser_vars, converter_vars>>

\* The page request comes back and the rest of the loop body runs.
ReceivePage ==
  /\ opc = "fetch"
  /\ fn.pc = "await"
  /\ \E o \in PageOutcomes(fn.start_index) :
       /\ fn' = OnPageOutcome(Call, o).l
       /\ net' = OnPageOutcome(Call, o).net
  /\ UNCHANGED <<API_KEY, all_authors, opc, idx, ret, files, summary_data, log,
                 summary_file, printed, twin, parser_vars, converter_vars>>

\* The rescue request comes back.
ReceiveRescue ==
  /\ opc = "fetch"
  /\ fn.pc = "rescue"
  /\ \E o \in RescueOutcomes(fn.start_index) :
       /\ fn' = OnRescueOutcome(Call, o).l
       /\ net' = OnRescueOutcome(Call, o).net
  /\ UNCHANGED <<API_KEY, all_authors, opc, idx, ret, files, summary_data, log,
                 summary_file, printed, twin, parser_vars, converter_vars>>

\* The loop is left: final_data is compiled and the call returns.
ReturnResult ==
  /\ opc = "fetch"
  /\ fn.pc = "final"
  /\ ret' = <<ReturnValue(fn)>>
  /\ fn' = NoCall
  /\ opc' = "save"
  /\ UNCHANGED <<API_KEY, all_authors, idx, net, files, summary_data, log,
                 summary_file, printed, twin, parser_vars, converter_vars>>

\* filename = f"{safe_name}-{viaf}-CONSOLIDATED.json".
Filename(r) == r.safe_name \o "-" \o r.viaf \o "-CONSOLIDATED.json"

\* The file system after filename is written with content.
WriteFile(fs, filename, content) ==
  [f \in DOMAIN fs \cup {filename} |-> IF f = filename THEN content ELSE fs[f]]

\* The entry appended to summary_data["authorsProcessed"].
SummaryEntry(entry, r) ==
  [authorLabel |-> NameOf(entry.authorLabel), viaf |-> r.viaf,
   outputFile |-> Filename(r),
   totalQueried |-> r.final_data._totalQueriedItems,
   totalFetched |-> r.final_data._totalFetchedItems,
   requestsMade |-> r.final_data._totalRequestsMade]

\* The line appended to the run log.
LogLine(entry, r) ==
  [author_name |-> NameOf(entry.authorLabel),
   items |-> r.final_data._totalFetchedItems, filename |-> Filename(r)]

\* Mutant of IOErrorCaught: nothing catches the IOError of the file write.
IOErrorCaught_No == FALSE

\* except IOError as e: the error of the output file's write is caught.
IOErrorCaught == TRUE

\* The rest of the for loop's body: the output file is written (an IOError is
\* caught and printed), the summary entry appended, the log line written
\* (nothing catches an error of that write).
PersistAuthor ==
  /\ opc = "save"
  /\ \E save_ok \in BOOLEAN, log_ok \in BOOLEAN :
       IF ~save_ok /\ ~IOErrorCaught
       THEN /\ opc' = "crashed"
            /\ UNCHANGED <<files, printed, summary_data, log, idx>>
       ELSE /\ files' = IF save_ok
                        THEN WriteFile(files, Filename(ret[1]), ret[1].final_data)
                        ELSE files
            /\ printed' = IF save_ok THEN printed
                          ELSE Append(printed, Filename(ret[1]))
            /\ summary_data' = Append(summary_data, SummaryEntry(author_entry, ret[1]))
            /\ IF log_ok
               THEN /\ log' = Append(log, LogLine(author_entry, ret[1]))
                    /\ idx' = idx + 1
                    /\ opc' = "loop"
               ELSE /\ opc' = "crashed"
                    /\ UNCHANGED <<log, idx>>
  /\ ret' = <<>>
  /\ net' = <<>>
  /\ UNCHANGED <<API_KEY, all_authors, fn, summary_file, twin, parser_vars, converter_vars>>

\* FINAL SUMMARY: the master summary file is written (an IOError is caught).
FinalSummary ==
  /\ opc = "loop"
  /\ idx = Len(all_authors)
  /\ \E ok \in BOOLEAN :
       summary_file' =
         IF ok
         THEN <<[totalAuthorsQueried |-> Len(all_authors),
                 authorsProcessed |-> summary_data]>>
         ELSE summary_file
  /\ opc' = "done"
  /\ UNCHANGED <<API_KEY, all_authors, idx, fn, net, ret, files, summary_data,
                 log, printed, twin, parser_vars, converter_vars>>

Next ==
  \/ Setup
  \/ SkipEntry
  \/ CallFetch
  \/ SendRequest
  \/ ReceivePage
  \/ ReceiveRescue
  \/ ReturnResult
  \/ PersistAuthor
  \/ FinalSummary

Spec == Init /\ [][Next]_vars

\* The script runs on: the while loop of fetch_all_books_for_author is
\* sequential code that goes to its next statement, requests.get is called
\* with timeout=30 and so returns or raises, and the function returns once
\* the loop is left.
SpecFair ==
  /\ Spec
  /\ WF_vars(SendRequest)
  /\ WF_vars(ReceivePage)
  /\ WF_vars(ReceiveRescue)
  /\ WF_vars(ReturnResult)

\* ------------------------------------------------ two runs side by side
\* Two calls of fetch_all_books_for_author for the same author, side a and
\* side b, advanced together: both send their k-th regular page request in
\* the same step and both are answered in the same step.  The answers to
\* page 1 are equal; the answers to a later page are equal except, possibly,
\* in totalItems.  The answers to the two rescue requests are equal.

\* The two outcomes differ at most in the advertised total.
SameButTotal(oa, ob) ==
  /\ oa.kind = ob.kind
  /\ oa.kind = "response" =>
       /\ oa.status = ob.status
       /\ oa.items = ob.items

TwinStart ==
  /\ twin = NoTwin
  /\ \E author \in {Bolivar, Gallegos} :
       LET l0 == InitLocals(author.authorLabel, ViafOf(author, 0))
       IN  twin' = [a |-> [l |-> l0, net |-> <<>>], b |-> [l |-> l0, net |-> <<>>]]
  /\ UNCHANGED <<orchestrator_vars, parser_vars, converter_vars>>

\* A side at the top of its loop sends its next page request.
TwinSendSide(cs) ==
  IF cs.l.pc = "request" /\ cs.l.request_count < MaxPages THEN LoopTop(cs) ELSE cs

TwinSend ==
  /\ \E side \in {twin.a, twin.b} :
       side.l.pc = "request" /\ side.l.request_count < MaxPages
  /\ twin' = [a |-> TwinSendSide(twin.a), b |-> TwinSendSide(twin.b)]
  /\ UNCHANGED <<orchestrator_vars, parser_vars, converter_vars>>

\* A side waiting for its page is answered.
TwinPageSide(cs, o) ==
  IF cs.l.pc = "await" THEN OnPageOutcome(cs, o) ELSE cs

TwinReceivePage ==
  /\ \E side \in {twin.a, twin.b} : side.l.pc = "await"
  /\ \E oa \in PageOutcomes(twin.a.l.start_index),
        ob \in PageOutcomes(twin.b.l.start_index) :
       /\ SameButTotal(oa, ob)
       /\ (twin.a.l.request_count = 1 \/ twin.b.l.request_count = 1) => oa = ob
       /\ twin' = [a |-> TwinPageSide(twin.a, oa), b |-> TwinPageSide(twin.b, ob)]
  /\ UNCHANGED <<orchestrator_vars, parser_vars, converter_vars>>

\* A side waiting for its rescue is answered.
TwinRescueSide(cs, o) ==
  IF cs.l.pc = "rescue" THEN OnRescueOutcome(cs, o) ELSE cs

TwinReceiveRescue ==
  /\ \E side \in {twin.a, twin.b} :
       /\ side.l.pc = "rescue"
       /\ \E o \in RescueOutcomes(side.l.start_index) :
            twin' = [a |-> TwinRescueSide(twin.a, o), b |-> TwinRescueSide(twin.b, o)]
  /\ UNCHANGED <<orchestrator_vars, parser_vars, converter_vars>>

InitTwin == Init /\ API_KEY

NextTwin ==
  \/ TwinStart
  \/ TwinSend
  \/ TwinReceivePage
  \/ TwinReceiveRescue

SpecTwin == InitTwin /\ [][NextTwin]_vars

\* ------------------------------------------------------------ the parser
\* parser_test.py: GoogleBooksToZoteroParser.  A text the parser looks into
\* character by character (a title, a saleability) is a sequence of
\* one-character strings; a JSON object is a function from the keys it
\* has to their values.

\* The most items of a file with several items.
MaxItems == 3

\* {}.
EmptyDict == [k \in {} |-> TRUE]

\* The object d with the key k set to v.
With(d, k, v) == [x \in DOMAIN d \cup {k} |-> IF x = k THEN v ELSE d[x]]

\* The objects ds, and each of them with the key k set to a value of vs.
Opt(ds, k, vs) == ds \cup {With(d, k, v) : d \in ds, v \in vs}

\* d.get(k, default).
Get(d, k, default) == IF k \in DOMAIN d THEN d[k] ELSE default

\* The accented letters, in ASCII: each is one character of a text.
i_acute == "i'"
o_acute == "o'"
a_acute == "a'"

\* Letters as pairs <<upper case, lower case>>.
Cases ==
  {<<"A", "a">>, <<"B", "b">>, <<"D", "d">>, <<"E", "e">>, <<"F", "f">>,
   <<"L", "l">>, <<"N", "n">>, <<"O", "o">>, <<"P", "p">>, <<"R", "r">>,
   <<"S", "s">>, <<"T", "t">>, <<"I'", i_acute>>}

Letters == {p[1] : p \in Cases} \cup {p[2] : p \in Cases}

Digits == {"0", "1", "2", "3", "4", "5", "6", "7", "8", "9"}

\* \w of a str pattern: letters of any script, digits and the underscore.
WordChars == Letters \cup Digits \cup {"_"}

\* \s.
Whitespace == {" ", "\t", "\n"}

\* str.lower() and str.upper().
lower(s) ==
  [k \in DOMAIN s |->
     IF \E p \in Cases : p[1] = s[k]
     THEN (CHOOSE p \in Cases : p[1] = s[k])[2] ELSE s[k]]

upper(s) ==
  [k \in DOMAIN s |->
     IF \E p \in Cases : p[2] = s[k]
     THEN (CHOOSE p \in Cases : p[2] = s[k])[1] ELSE s[k]]

\* The text as one string.
RECURSIVE Str(_)
Str(s) ==
  IF s = <<>> THEN ""
  ELSE IF Len(s) = 1 THEN s[1]
  ELSE Str(SubSeq(s, 1, Len(s) \div 2)) \o Str(SubSeq(s, Len(s) \div 2 + 1, Len(s)))

\* slug.replace(' ', '_').
ReplaceSpaces(s) == [k \in DOMAIN s |-> IF s[k] = " " THEN "_" ELSE s[k]]

\* re.sub(r'[^\w\s-]', '', slug).
KeptInSlug(c) == c \in WordChars \cup Whitespace \cup {"-"}

RemoveSpecial(s) == SelectSeq(s, KeptInSlug)

\* re.sub(r'[-\s]+', '_', slug): each run of hyphens and whitespace becomes
\* one underscore.
RunStart(c) == c.first

CollapseRuns(s) ==
  LET sep(k) == s[k] \in Whitespace \cup {"-"}
      marked == [k \in DOMAIN s |->
                   [char |-> IF sep(k) THEN "_" ELSE s[k],
                    first |-> ~sep(k) \/ k = 1 \/ ~sep(k - 1)]]
      kept == SelectSeq(marked, RunStart)
  IN [k \in DOMAIN kept |-> kept[k].char]

\* slug.strip('_').
StripUnderscores(s) ==
  LET other == {k \in DOMAIN s : s[k] # "_"}
  IN IF other = {} THEN <<>>
     ELSE SubSeq(s, CHOOSE k \in other : \A m \in other : k <= m,
                    CHOOSE k \in other : \A m \in other : k >= m)

\* slug[:100] when the slug is longer.
Truncate(s) == IF Len(s) > 100 THEN SubSeq(s, 1, 100) ELSE s

\* Mutant of create_title_slug: accented letters are folded to plain ones.
Unaccent(s) == [k \in DOMAIN s |-> IF s[k] = i_acute THEN "i" ELSE s[k]]

create_title_slug_Folded(title) ==
  IF title = <<>> THEN <<>>
  ELSE Truncate(StripUnderscores(CollapseRuns(RemoveSpecial(
         ReplaceSpaces(Unaccent(lower(title)))))))

\* create_title_slug.
create_title_slug(title) ==
  IF title = <<>> THEN <<>>
  ELSE Truncate(StripUnderscores(CollapseRuns(RemoveSpecial(
         ReplaceSpaces(lower(title))))))

\* sub in s.
Contains(s, sub) ==
  \E k \in 1..(Len(s) - Len(sub) + 1) : SubSeq(s, k, k + Len(sub) - 1) = sub

\* s.split(): the words between the runs of whitespace.
SplitStep(w, c) ==
  IF c \in Whitespace
  THEN [done |-> IF w.cur = <<>> THEN w.done ELSE Append(w.done, w.cur),
        cur |-> <<>>]
  ELSE [done |-> w.done, cur |-> Append(w.cur, c)]

split(s) ==
  LET W[k \in 0..Len(s)] ==
        IF k = 0 THEN [done |-> <<>>, cur |-> <<>>]
        ELSE SplitStep(W[k - 1], s[k])
  IN SplitStep(W[Len(s)], " ").done

\* sep.join(texts).
join(sep, texts) ==
  LET J[k \in 0..Len(texts)] ==
        IF k = 0 THEN <<>>
        ELSE IF k = 1 THEN texts[1]
        ELSE J[k - 1] \o sep \o texts[k]
  IN J[Len(texts)]

\* urllib.parse.unquote, and the encoding it undoes: a space travels as %20
\* (one element here).
unquote(s) == [k \in DOMAIN s |-> IF s[k] = "%20" THEN " " ELSE s[k]]

\* A request URL as the parser reads it: the empty string is <<>>, a URL is
\* <<u>> with u the parameters of its q.
RequestUrl(name) ==
  <<[inauthor |-> [k \in DOMAIN name |-> IF name[k] = " " THEN "%20" ELSE name[k]]]>>

\* extract_author_from_url.
extract_author_from_url(url) ==
  IF url = <<>> THEN <<>>
  ELSE IF "inauthor" \notin DOMAIN url[1] THEN <<>>
  ELSE IF url[1].inauthor = <<>> THEN <<>>
  ELSE unquote(unquote(url[1].inauthor))

\* One author of format_authors.
format_author(author) ==
  IF Contains(author, <<",", " ">>) THEN author
  ELSE LET parts == split(author)
       IN IF Len(parts) >= 2
          THEN parts[Len(parts)] \o <<",", " ">>
                 \o join(<<" ">>, SubSeq(parts, 1, Len(parts) - 1))
          ELSE author

\* format_authors.
format_authors(authors) ==
  IF authors = <<>> THEN <<>>
  ELSE join(<<";", " ">>, [k \in DOMAIN authors |-> format_author(authors[k])])

\* The locals get_url and should_include_item both compute.
pdf_info(item) == Get(Get(item, "accessInfo", EmptyDict), "pdf", EmptyDict)

pdf_available(item) == Get(pdf_info(item), "isAvailable", FALSE)

has_download_link(item) == "downloadLink" \in DOMAIN pdf_info(item)

is_free(item) ==
  upper(Get(Get(item, "saleInfo", EmptyDict), "saleability", <<>>)) = <<"F", "R", "E", "E">>

\* get_url.
get_url(item) ==
  LET volume_info == Get(item, "volumeInfo", EmptyDict)
      sale_info == Get(item, "saleInfo", EmptyDict)
      volume_id == Get(item, "id", "")
  IN IF pdf_available(item) /\ has_download_link(item)
     THEN Get(pdf_info(item), "downloadLink", "")
     ELSE IF ~pdf_available(item) /\ is_free(item)
     THEN LET title_slug == create_title_slug(Get(volume_info, "title", <<>>))
          IN IF title_slug # <<>> /\ volume_id # ""
             THEN "https://books.google.com/books/download/" \o Str(title_slug)
                    \o ".pdf?id=" \o volume_id \o "&output=pdf"
             ELSE Get(sale_info, "buyLink", Get(volume_info, "infoLink", ""))
     ELSE Get(volume_info, "infoLink", "")

\* Mutant of should_include_item: every item is included.
should_include_item_Always(item) == TRUE

\* Mutant of should_include_item: a download link alone is enough.
should_include_item_LinkOnly(item) == has_download_link(item) \/ is_free(item)

\* Mutant of should_include_item: the link counts when the PDF is flagged
\* unavailable.
should_include_item_Unavailable(item) ==
  (~pdf_available(item) /\ has_download_link(item)) \/ is_free(item)

\* should_include_item.
should_include_item(item) ==
  (pdf_available(item) /\ has_download_link(item)) \/ is_free(item)

\* JSON null: a field whose value is null is left out of the object and its
\* path is listed under "nulls" in the item, so that a .get on it gives the
\* default where the code's own test of the value would.
IsNull(item, path) == "nulls" \in DOMAIN item /\ path \in item["nulls"]

\* is_match raises TypeError at "target_author in authors" when authors is
\* null, after the return for an empty target.
is_match_raises(item, target) ==
  target # <<>> /\ IsNull(item, "volumeInfo.authors")

\* Mutant of is_match: the first author decides.
is_match_FirstAuthor(item, target) ==
  LET authors == Get(Get(item, "volumeInfo", EmptyDict), "authors", <<>>)
  IN IF target = <<>> THEN TRUE
     ELSE authors # <<>> /\ authors[1] = target

\* is_match.
is_match(item, target) ==
  LET authors == Get(Get(item, "volumeInfo", EmptyDict), "authors", <<>>)
  IN IF target = <<>> THEN TRUE
     ELSE \E k \in DOMAIN authors : authors[k] = target

\* self.csv_headers.
csv_headers ==
  <<
   "Key", "Item Type", "Publication Year", "Author", "Title",
   "Publication Title", "ISBN", "ISSN", "DOI", "Url", "Abstract Note",
   "Date", "Date Added", "Date Modified", "Access Date", "Pages",
   "Num Pages", "Issue", "Volume", "Number Of Volumes",
   "Journal Abbreviation", "Short Title", "Series", "Series Number",
   "Series Text", "Series Title", "Publisher", "Place", "Language", "Rights",
   "Type", "Archive", "Archive Location", "Library Catalog", "Call Number",
   "Extra", "Notes", "File Attachments", "Link Attachments", "Manual Tags",
   "Automatic Tags", "Editor", "Series Editor", "Translator", "Contributor",
   "Attorney Agent", "Book Author", "Cast Member", "Commenter", "Composer",
   "Cosponsor", "Counsel", "Interviewer", "Producer", "Recipient",
   "Reviewed Author", "Scriptwriter", "Words By", "Guest", "Number",
   "Edition", "Running Time", "Scale", "Medium", "Artwork Size",
   "Filing Date", "Application Number", "Assignee", "Issuing Authority",
   "Country", "Meeting Name", "Conference Name", "Court", "References",
   "Reporter", "Legal Status", "Priority Numbers", "Programming Language",
   "Version", "System", "Code", "Code Number", "Section", "Session",
   "Committee", "History", "Legislative Body"
  >>

\* extract_year; year_part is published_date.split('-')[0], the part before
\* the first hyphen.
extract_year(published_date) ==
  LET at == {k \in DOMAIN published_date : published_date[k] = "-"}
      year_part ==
        IF at = {} THEN published_date
        ELSE SubSeq(published_date, 1,
                    (CHOOSE k \in at : \A m \in at : k <= m) - 1)
  IN IF published_date = <<>> THEN <<>>
     ELSE IF Len(year_part) = 4 /\ \A k \in DOMAIN year_part : year_part[k] \in Digits
     THEN year_part
     ELSE <<>>

\* The identifier of the last entry of the type, "" when there is none.
LastOfType(industry_identifiers, type) ==
  LET of_type == {k \in DOMAIN industry_identifiers :
                    Get(industry_identifiers[k], "type", "") = type}
  IN IF of_type = {} THEN ""
     ELSE Get(industry_identifiers[CHOOSE k \in of_type : \A m \in of_type : k >= m],
              "identifier", "")

\* extract_isbn.
extract_isbn(industry_identifiers) ==
  IF LastOfType(industry_identifiers, "ISBN_13") # ""
  THEN LastOfType(industry_identifiers, "ISBN_13")
  ELSE LastOfType(industry_identifiers, "ISBN_10")

image_priorities ==
  <<"extraLarge", "large", "medium", "small", "thumbnail", "smallThumbnail">>

\* get_image_links.
get_image_links(image_links) ==
  LET there == {k \in DOMAIN image_priorities :
                  /\ image_priorities[k] \in DOMAIN image_links
                  /\ image_links[image_priorities[k]] # ""}
  IN IF there = {} THEN ""
     ELSE image_links[image_priorities[CHOOSE k \in there : \A m \in there : k <= m]]

\* re.sub(r'<[^>]+>', '', description).
RECURSIVE RemoveTags(_)
RemoveTags(s) ==
  LET closing == {k \in 2..Len(s) : s[k] = ">"}
      first == CHOOSE k \in closing : \A m \in closing : k <= m
  IN IF s = <<>> THEN <<>>
     ELSE IF s[1] = "<" /\ closing # {} /\ first > 2
     THEN RemoveTags(SubSeq(s, first + 1, Len(s)))
     ELSE <<s[1]>> \o RemoveTags(Tail(s))

\* s.replace(old, new).
RECURSIVE replace(_, _, _)
replace(s, old, new) ==
  IF Len(s) < Len(old) THEN s
  ELSE IF SubSeq(s, 1, Len(old)) = old
  THEN new \o replace(SubSeq(s, Len(old) + 1, Len(s)), old, new)
  ELSE <<s[1]>> \o replace(Tail(s), old, new)

\* The five replacements of HTML entities, in the order of the code.
ReplaceEntities(s) ==
  replace(replace(replace(replace(replace(s, <<"&", "a", "m", "p", ";">>, <<"&">>),
                                  <<"&", "l", "t", ";">>, <<"<">>),
                          <<"&", "g", "t", ";">>, <<">">>),
                  <<"&", "q", "u", "o", "t", ";">>, <<"\"">>),
          <<"&", "#", "3", "9", ";">>, <<"'">>)

\* re.sub(r'\s+', ' ', clean_text).
CollapseWhitespace(s) ==
  LET marked == [k \in DOMAIN s |->
                   [char |-> IF s[k] \in Whitespace THEN " " ELSE s[k],
                    first |-> \/ s[k] \notin Whitespace
                              \/ k = 1
                              \/ s[k - 1] \notin Whitespace]]
      kept == SelectSeq(marked, RunStart)
  IN [k \in DOMAIN kept |-> kept[k].char]

\* s.strip().
strip(s) ==
  LET other == {k \in DOMAIN s : s[k] \notin Whitespace}
  IN IF other = {} THEN <<>>
     ELSE SubSeq(s, CHOOSE k \in other : \A m \in other : k <= m,
                    CHOOSE k \in other : \A m \in other : k >= m)

\* clean_html_from_description.
clean_html_from_description(description) ==
  IF description = <<>> THEN <<>>
  ELSE strip(CollapseWhitespace(ReplaceEntities(RemoveTags(description))))

\* Mutant of EmptyColumns: the record has no Key.
EmptyColumns_NoKey ==
  {
   "Publication Title", "ISSN", "DOI", "Abstract Note", "Access Date",
   "Pages", "Issue", "Volume", "Number Of Volumes", "Journal Abbreviation",
   "Short Title", "Series", "Series Number", "Series Text", "Series Title",
   "Place", "Rights", "Type", "Archive Location", "Library Catalog",
   "Call Number", "Link Attachments", "Manual Tags", "Automatic Tags",
   "Editor", "Series Editor", "Translator", "Contributor", "Attorney Agent",
   "Book Author", "Cast Member", "Commenter", "Composer", "Cosponsor",
   "Counsel", "Interviewer", "Producer", "Recipient", "Reviewed Author",
   "Scriptwriter", "Words By", "Guest", "Number", "Edition", "Running Time",
   "Scale", "Medium", "Artwork Size", "Filing Date", "Application Number",
   "Assignee", "Issuing Authority", "Country", "Meeting Name",
   "Conference Name", "Court", "References", "Reporter", "Legal Status",
   "Priority Numbers", "Programming Language", "Version", "System", "Code",
   "Code Number", "Section", "Session", "Committee", "History",
   "Legislative Body"
  }

\* The columns the record's literal gives the value "".
EmptyColumns ==
  {
   "Key", "Publication Title", "ISSN", "DOI", "Abstract Note", "Access Date",
   "Pages", "Issue", "Volume", "Number Of Volumes", "Journal Abbreviation",
   "Short Title", "Series", "Series Number", "Series Text", "Series Title",
   "Place", "Rights", "Type", "Archive Location", "Library Catalog",
   "Call Number", "Link Attachments", "Manual Tags", "Automatic Tags",
   "Editor", "Series Editor", "Translator", "Contributor", "Attorney Agent",
   "Book Author", "Cast Member", "Commenter", "Composer", "Cosponsor",
   "Counsel", "Interviewer", "Producer", "Recipient", "Reviewed Author",
   "Scriptwriter", "Words By", "Guest", "Number", "Edition", "Running Time",
   "Scale", "Medium", "Artwork Size", "Filing Date", "Application Number",
   "Assignee", "Issuing Authority", "Country", "Meeting Name",
   "Conference Name", "Court", "References", "Reporter", "Legal Status",
   "Priority Numbers", "Programming Language", "Version", "System", "Code",
   "Code Number", "Section", "Session", "Committee", "History",
   "Legislative Body"
  }

\* Mutant of record_date: the column Date is the time of the mapping.
record_date_Clock(year, current_time) == current_time

\* "Date": year.
record_date(year, current_time) == year

\* parse_item: the record, a function from its columns to their values;
\* current_time is the clock as parse_item reads it.
parse_item(item, current_time) ==
  LET volume_info == Get(item, "volumeInfo", EmptyDict)
      title == Get(volume_info, "title", <<>>)
      subtitle == Get(volume_info, "subtitle", <<>>)
      full_title == IF subtitle # <<>> THEN title \o <<":", " ">> \o subtitle ELSE title
      year == extract_year(Get(volume_info, "publishedDate", <<>>))
      publisher == Get(volume_info, "publisher", "")
      notes == clean_html_from_description(Get(volume_info, "description", <<>>))
      file_attachments == get_image_links(Get(volume_info, "imageLinks", EmptyDict))
  IN ("Item Type" :> "book")
     @@ ("Publication Year" :> year)
     @@ ("Author" :> format_authors(Get(volume_info, "authors", <<>>)))
     @@ ("Title" :> full_title)
     @@ ("ISBN" :> extract_isbn(Get(volume_info, "industryIdentifiers", <<>>)))
     @@ ("Url" :> get_url(item))
     @@ ("Date" :> record_date(year, current_time))
     @@ ("Date Added" :> current_time)
     @@ ("Date Modified" :> current_time)
     @@ ("Num Pages" :> IF "pageCount" \in DOMAIN volume_info
                         THEN ToString(volume_info.pageCount) ELSE "")
     @@ ("Publisher" :> publisher)
     @@ ("Language" :> Get(volume_info, "language", ""))
     @@ ("Archive" :> "Google Books")
     @@ ("Extra" :> "Venezuela")
     @@ ("Notes" :> notes)
     @@ ("File Attachments" :> file_attachments)
     @@ [column \in EmptyColumns |-> ""]

\* ---- the files the parser is given
GallegosName == <<"R", o_acute, "m", "u", "l", "o", " ", "G", "a", "l", "l", "e", "g", "o", "s">>
DiazName == <<"D", i_acute, "a", "z", " ", "S", a_acute, "n", "c", "h", "e", "z", ",", " ", "R", "a", "m", o_acute, "n">>
\* A name of one word.
AnonimoName == <<"A", "n", "o", "n", "i", "m", "o">>

FloraDelPais == <<"F", "l", "o", "r", "a", " ", "d", "e", "l", " ", "P", "a", i_acute, "s">>
HyphenTitle == <<"A", " ", "-", " ", "B">>
\* 99 letters, a blank and a letter.
LongTitle == [k \in 1..101 |-> IF k = 100 THEN " " ELSE "a"]

\* The lists of authors; "Uslar,Arturo Pietri" has a comma with no blank
\* after it.
AuthorsLists ==
  {<<>>, <<GallegosName>>, <<DiazName>>, <<DiazName, GallegosName>>,
   <<<<"U", "s", "l", "a", "r", ",", "A", "r", "t", "u", "r", "o", " ", "P", "i", "e", "t", "r", "i">>>>, <<AnonimoName, GallegosName>>}

AccessInfos ==
  Opt({EmptyDict}, "pdf",
      Opt(Opt({EmptyDict}, "isAvailable", BOOLEAN), "downloadLink",
          {"http://books.google.com/books/download/x.pdf"})) \ {EmptyDict}

SaleInfos ==
  Opt(Opt({EmptyDict}, "saleability",
          {<<"F", "R", "E", "E">>, <<"f", "r", "e", "e">>, <<"N", "O", "T", "_", "F", "O", "R", "_", "S", "A", "L", "E">>}),
      "buyLink", {"https://play.google.com/store/books/details?id=x"})

\* The titles: none, one with an accent, one without a word character, one
\* with a hyphen between blanks, one of 101 characters.
VolumeInfos ==
  Opt(Opt(Opt({EmptyDict}, "title",
              {<<>>, FloraDelPais, <<"!", "!">>, HyphenTitle, LongTitle}),
          "authors", AuthorsLists),
      "infoLink", {"https://books.google.com/books?id=x"})

\* The raw items: every combination of the fields the parser reads, each
\* present or absent.
RawItems ==
  Opt(Opt(Opt(Opt({EmptyDict}, "accessInfo", AccessInfos),
              "saleInfo", SaleInfos),
          "volumeInfo", VolumeInfos),
      "id", {"abc123"})

\* Three items for the files with more than one item: a free one by the
\* author, one with a PDF by somebody else, one not to be had by the author.
FreeItem ==
  [id |-> "abc123",
   saleInfo |-> [saleability |-> <<"F", "R", "E", "E">>],
   volumeInfo |-> [title |-> FloraDelPais, authors |-> <<GallegosName>>]]

PdfItem ==
  [id |-> "abc123",
   accessInfo |-> [pdf |-> [isAvailable |-> TRUE,
                            downloadLink |-> "http://books.google.com/books/download/x.pdf"]],
   volumeInfo |-> [title |-> HyphenTitle, authors |-> <<DiazName>>]]

ClosedItem ==
  [id |-> "abc123",
   saleInfo |-> [saleability |-> <<"N", "O", "T", "_", "F", "O", "R", "_", "S", "A", "L", "E">>],
   volumeInfo |-> [title |-> FloraDelPais, authors |-> <<GallegosName>>]]

\* An item with every field the record draws on, and one with fields that
\* give nothing.
FullItem ==
  [id |-> "abc123",
   accessInfo |-> [pdf |-> [isAvailable |-> TRUE,
                            downloadLink |-> "http://books.google.com/books/download/x.pdf"]],
   volumeInfo |->
     [title |-> FloraDelPais, subtitle |-> <<"T", "o", "m", "o", " ", "2">>,
      authors |-> <<GallegosName, DiazName>>,
      publishedDate |-> <<"2", "0", "0", "4", "-", "0", "1", "-", "1", "5">>,
      publisher |-> "Monte Avila",
      description |-> <<"<", "p", ">", "F", "l", "o", "r", "a", " ", "&", "a", "m", "p", ";", " ", " ", "f", "a", "u", "n", "a", "<", "/", "p", ">">>,
      imageLinks |-> [small |-> "", thumbnail |-> "http://books.google.com/t.jpg",
                      smallThumbnail |-> "http://books.google.com/s.jpg"],
      industryIdentifiers |-> <<[type |-> "ISBN_10", identifier |-> "9800101234"],
                                [type |-> "ISBN_13", identifier |-> "9789800101230"],
                                [type |-> "OTHER", identifier |-> "UOM:39015"]>>,
      pageCount |-> 120, language |-> "es"]]

OddItem ==
  [id |-> "abc123",
   saleInfo |-> [saleability |-> <<"F", "R", "E", "E">>],
   volumeInfo |->
     [title |-> HyphenTitle,
      authors |-> <<AnonimoName>>,
      publishedDate |-> <<"c", "1", "9", "2", "0">>,
      description |-> <<"a", " ", "<", ">", " ", "b">>,
      imageLinks |-> [small |-> ""],
      industryIdentifiers |-> <<[type |-> "ISBN_10", identifier |-> "9800101234"],
                                [type |-> "ISBN_13"]>>]]

\* A free item whose volumeInfo.authors is null.
NullAuthorsItem ==
  [id |-> "abc123",
   saleInfo |-> [saleability |-> <<"F", "R", "E", "E">>],
   volumeInfo |-> [title |-> FloraDelPais],
   nulls |-> {"volumeInfo.authors"}]

SampleItems == {FreeItem, PdfItem, ClosedItem, FullItem, NullAuthorsItem}

\* The lists of items of a file: none, one item of any kind, several of the
\* sample items.
ItemLists ==
  {<<>>} \cup {<<item>> : item \in RawItems \cup {OddItem}}
         \cup UNION {[1..n -> SampleItems] : n \in 2..MaxItems}

\* What a file has besides its items: the request URL in getRequest, or only
\* in _requestUrls, or nowhere.
Headers ==
  {[getRequest |-> RequestUrl(GallegosName),
    _requestUrls |-> <<RequestUrl(GallegosName)>>],
   [getRequest |-> <<>>, _requestUrls |-> <<RequestUrl(GallegosName)>>],
   EmptyDict}

JsonFiles == {With(h, "items", items) : h \in Headers, items \in ItemLists}

\* data.get('items', []).
items_of(d) == Get(d, "items", <<>>)

\* parse_json_file, up to the for loop: the file is read and the target
\* author looked for in getRequest, then in the first of _requestUrls.
OpenFile ==
  /\ ppc = "open"
  /\ LET from_get_request == extract_author_from_url(Get(data, "getRequest", <<>>))
         request_urls == Get(data, "_requestUrls", <<>>)
     IN target_author' =
          IF from_get_request # <<>> THEN from_get_request
          ELSE IF request_urls # <<>> THEN extract_author_from_url(request_urls[1])
          ELSE from_get_request
  /\ ppc' = "loop"
  /\ UNCHANGED <<data, item_index, include_item, is_a_match, record,
                 matches_records, non_matches_records, excluded_count, now,
                 parse_errors>>
  /\ UNCHANGED <<orchestrator_vars, twin, converter_vars>>

\* One iteration of the for loop over the items; parse_item reads the
\* clock, which has not gone back since it was last read. An exception in
\* the iteration is caught by the loop: the item is counted as excluded and
\* the loop goes on.
ParseItem ==
  /\ ppc = "loop"
  /\ item_index < Len(items_of(data))
  /\ LET item == items_of(data)[item_index + 1]
     IN /\ include_item' = should_include_item(item)
        /\ IF should_include_item(item)
           THEN IF is_match_raises(item, target_author)
                THEN /\ parse_errors' = Append(parse_errors, item_index)
                     /\ excluded_count' = excluded_count + 1
                     /\ UNCHANGED <<is_a_match, record, matches_records,
                                    non_matches_records, now>>
                ELSE /\ is_a_match' = is_match(item, target_author)
                     /\ \E current_time \in {now, now + 1} :
                          /\ now' = current_time
                          /\ record' = <<parse_item(item, current_time)>>
                     /\ IF is_match(item, target_author)
                        THEN /\ matches_records' = Append(matches_records, record'[1])
                             /\ UNCHANGED non_matches_records
                        ELSE /\ non_matches_records' =
                                  Append(non_matches_records, record'[1])
                             /\ UNCHANGED matches_records
                     /\ UNCHANGED <<excluded_count, parse_errors>>
           ELSE /\ excluded_count' = excluded_count + 1
                /\ UNCHANGED <<is_a_match, record, matches_records,
                               non_matches_records, now, parse_errors>>
  /\ item_index' = item_index + 1
  /\ UNCHANGED <<ppc, data, target_author>>
  /\ UNCHANGED <<orchestrator_vars, twin, converter_vars>>

\* return matches_records, non_matches_records, excluded_count, target_author.
ReturnParsed ==
  /\ ppc = "loop"
  /\ item_index = Len(items_of(data))
  /\ ppc' = "returned"
  /\ UNCHANGED <<data, target_author, item_index, include_item, is_a_match,
                 record, matches_records, non_matches_records, excluded_count,
                 now, parse_errors>>
  /\ UNCHANGED <<orchestrator_vars, twin, converter_vars>>

\* The parser is given a file; the batch script is not running.
InitParser ==
  /\ API_KEY = TRUE
  /\ all_authors = <<>>
  /\ opc = "setup"
  /\ idx = 0
  /\ fn = NoCall
  /\ net = <<>>
  /\ ret = <<>>
  /\ files = <<>>
  /\ summary_data = <<>>
  /\ log = <<>>
  /\ summary_file = <<>>
  /\ printed = <<>>
  /\ twin = NoTwin
  /\ ppc = "open"
  /\ data \in JsonFiles
  /\ target_author = <<>>
  /\ item_index = 0
  /\ include_item = FALSE
  /\ is_a_match = FALSE
  /\ record = <<>>
  /\ matches_records = <<>>
  /\ non_matches_records = <<>>
  /\ excluded_count = 0
  /\ now = 0
  /\ parse_errors = <<>>
  /\ ConverterOff

NextParser ==
  \/ OpenFile
  \/ ParseItem
  \/ ReturnParsed

SpecParser == InitParser /\ [][NextParser]_vars

\* --------------------------------------------------------- the converter
\* parser_to_zotero.py: ZoteroCSVtoRDFConverter.convert_csv_to_rdf.  An
\* element of the RDF tree is recorded by its tag, its rdf:about and, for
\* an item, the references it holds (tag and rdf:resource) in the order
\* they were added; the other children of the elements carry no identifier.

\* The most rows of a CSV file.
MaxRows == 3

\* s.split(sep): the parts between the separators, the empty ones too.
SplitOnStep(w, c, sep) ==
  IF c = sep THEN [done |-> Append(w.done, w.cur), cur |-> <<>>]
  ELSE [done |-> w.done, cur |-> Append(w.cur, c)]

split_on(s, sep) ==
  LET W[k \in 0..Len(s)] ==
        IF k = 0 THEN [done |-> <<>>, cur |-> <<>>]
        ELSE SplitOnStep(W[k - 1], s[k], sep)
      last == W[Len(s)]
  IN Append(last.done, last.cur)

NonEmpty(s) == s # <<>>

\* [a.strip() for a in text.split(';') if a.strip()].
attachments_of(text) ==
  LET parts == split_on(text, ";")
  IN SelectSeq([k \in DOMAIN parts |-> strip(parts[k])], NonEmpty)

\* os.path.basename.
basename(s) ==
  LET at == {k \in DOMAIN s : s[k] = "/"}
  IN IF at = {} THEN s
     ELSE SubSeq(s, (CHOOSE k \in at : \A m \in at : k >= m) + 1, Len(s))

\* extract_attachment_info: the file name of an attachment string.
extract_attachment_info(attachment_string) ==
  LET parts == split_on(attachment_string, ":")
      last == parts[Len(parts)]
  IN IF Len(parts) > 1
     THEN strip(IF last # <<>> THEN strip(last) ELSE <<"a", "t", "t", "a", "c", "h", "m", "e", "n", "t">>)
     ELSE strip(basename(attachment_string))

Element(tag, about) == [tag |-> tag, about |-> about, refs |-> <<>>]

Reference(tag, resource) == [tag |-> tag, resource |-> resource]

\* f"#item_{item_key}_{counter}": the identifier of a note or an attachment.
SubId(item_key, counter) ==
  "#item_" \o ToString(item_key) \o "_" \o ToString(counter)

\* create_item_element: rdf:about is the URL when the row has one.
create_item_element(row, item_key) ==
  LET about_url == row["Url"]
  IN Element("bib:Book",
             IF about_url # <<>> /\ (Contains(about_url, <<"h", "t", "t", "p", ":", "/", "/">>)
                                     \/ Contains(about_url, <<"h", "t", "t", "p", "s", ":", "/", "/">>))
             THEN Str(about_url) ELSE "#item_" \o ToString(item_key))

\* Handle notes: what the row's iteration has built is the converter c and
\* the item element.
HandleNotes(c, item_elem, row, item_key) ==
  IF row["Notes"] # <<>>
  THEN LET note_id == SubId(item_key, c.note_counter)
       IN [c |-> [c EXCEPT !.root = Append(@, Element("bib:Memo", note_id)),
                           !.note_counter = @ + 1],
           item_elem |-> [item_elem EXCEPT !.refs =
                            Append(@, Reference("dcterms:isReferencedBy", note_id))]]
  ELSE [c |-> c, item_elem |-> item_elem]

\* One round of the loop over the attachments of a row.
HandleAttachment(w, attachment_string, item_key) ==
  LET attach_id == SubId(item_key, w.c.attachment_counter)
  IN [c |-> [w.c EXCEPT !.root =
                     IF extract_attachment_info(attachment_string) # <<>>
                     THEN Append(@, Element("z:Attachment", attach_id)) ELSE @,
                   !.attachment_counter = @ + 1],
      item_elem |-> [w.item_elem EXCEPT !.refs =
                       Append(@, Reference("link:link", attach_id))]]

\* The loop over the attachments of a row.
HandleAttachments(w, attachments, item_key) ==
  LET W[k \in 0..Len(attachments)] ==
        IF k = 0 THEN w
        ELSE HandleAttachment(W[k - 1], attachments[k], item_key)
  IN W[Len(attachments)]

\* The body of the loop over the rows.
ConvertOneRow(c, raw_row) ==
  LET row == [column \in DOMAIN raw_row |-> strip(raw_row[column])]
      item_key == c.item_counter
      noted == HandleNotes(c, create_item_element(row, item_key), row, item_key)
      attached ==
        IF row["File Attachments"] # <<>>
        THEN HandleAttachments(noted, attachments_of(row["File Attachments"]), item_key)
        ELSE IF row["Link Attachments"] # <<>>
        THEN HandleAttachments(noted, attachments_of(row["Link Attachments"]), item_key)
        ELSE noted
  IN [attached.c EXCEPT !.root = Append(@, attached.item_elem),
                        !.item_counter = @ + 1]

\* ---- the CSV files the converter is given
Row(url, notes, file_attachments, link_attachments) ==
  ("Url" :> url) @@ ("Notes" :> notes)
    @@ ("File Attachments" :> file_attachments)
    @@ ("Link Attachments" :> link_attachments)

\* The rows: one as the parser writes it, with a note and an image; one
\* with a URL and a note; one with three attachments, the second blank and
\* skipped, the third a folder, which has no file name; one with a link
\* attachment; one with a blank note; one with a file and a link attachment.
SampleRows ==
  {Row(<<>>, <<"n">>, <<"f", ".", "p", "d", "f">>, <<>>),
   Row(<<"h", "t", "t", "p", ":", "/", "/", "x">>, <<"n">>, <<>>, <<>>),
   Row(<<>>, <<>>, <<"a", ".", "t", "x", "t", ";", " ", ";", "d", "/">>, <<>>),
   Row(<<>>, <<>>, <<>>, <<"c", ":", "l", ".", "h", "t", "m", "l">>),
   Row(<<>>, <<" ">>, <<>>, <<>>),
   Row(<<"h", "t", "t", "p", "s", ":", "/", "/", "y">>, <<>>, <<"g", ".", "t", "x", "t">>, <<"l", ".", "h", "t", "m", "l">>)}

CsvFiles == UNION {[1..n -> SampleRows] : n \in 0..MaxRows}

\* convert_csv_to_rdf up to the loop: the root is created and the file
\* opened.
StartConversion ==
  /\ zpc = "start"
  /\ converter' = [converter EXCEPT !.root = <<>>]
  /\ zpc' = "rows"
  /\ UNCHANGED reader
  /\ UNCHANGED <<orchestrator_vars, twin, parser_vars>>

\* One iteration of the loop over the rows.
ConvertRow ==
  /\ zpc = "rows"
  /\ reader.pos < Len(reader.rows)
  /\ converter' = ConvertOneRow(converter, reader.rows[reader.pos + 1])
  /\ reader' = [reader EXCEPT !.pos = @ + 1]
  /\ UNCHANGED zpc
  /\ UNCHANGED <<orchestrator_vars, twin, parser_vars>>

\* The rows are exhausted: the tree is written to the output file.
WriteRdf ==
  /\ zpc = "rows"
  /\ reader.pos = Len(reader.rows)
  /\ zpc' = "written"
  /\ UNCHANGED <<reader, converter>>
  /\ UNCHANGED <<orchestrator_vars, twin, parser_vars>>

\* A new converter is given a CSV file; nothing else is running.
InitConverter ==
  /\ API_KEY = TRUE
  /\ all_authors = <<>>
  /\ opc = "setup"
  /\ idx = 0
  /\ fn = NoCall
  /\ net = <<>>
  /\ ret = <<>>
  /\ files = <<>>
  /\ summary_data = <<>>
  /\ log = <<>>
  /\ summary_file = <<>>
  /\ printed = <<>>
  /\ twin = NoTwin
  /\ ParserOff
  /\ zpc = "start"
  /\ reader \in {[rows |-> rows, pos |-> 0] : rows \in CsvFiles}
  /\ converter = NewConverter

NextConverter ==
  \/ StartConversion
  \/ ConvertRow
  \/ WriteRdf

SpecConverter == InitConverter /\ [][NextConverter]_vars

\* ------------------------------------------------- vocabulary of the claims

\* The exchange was answered by a response the regular path accepts.
PageRead(e) ==
  /\ e.kind = "page"
  /\ e.outcome.kind = "response"
  /\ e.outcome.status < 400

\* The regular page request of the exchange failed: requests.get raised, or
\* the status was not a success.
PageFailed(e) ==
  /\ e.kind = "page"
  /\ \/ e.outcome.kind = "exception"
     \/ e.outcome.kind = "response" /\ e.outcome.status >= 400

\* The call has returned to the orchestrator and its result is at hand.
Returned == opc = "save"

\* The consolidated result of the call that has returned.
Result == ret[1].final_data

\* The items accumulated: by the call in progress, or in its result.
ItemsSoFar == IF Returned THEN Result.items ELSE fn.all_items

RECURSIVE Flatten(_)
\* The concatenation of a sequence of sequences.
Flatten(ss) == IF ss = <<>> THEN <<>> ELSE Head(ss) \o Flatten(Tail(ss))

\* What an exchange contributes to the result: a page read in the normal
\* case (nonzero total) its items, a rescue answered by a response its items.
Contribution(e) ==
  IF PageRead(e) /\ e.outcome.totalItems # 0 THEN e.outcome.items
  ELSE IF e.kind = "rescue" /\ e.outcome.kind = "response" THEN e.outcome.items
  ELSE <<>>

\* The items the responses to the first k exchanges carried.
CarriedBefore(n, k) ==
  Flatten([j \in 1..(k - 1) |->
             IF n[j].outcome.kind = "response" THEN n[j].outcome.items ELSE <<>>])

\* ----------------------------------------------------------------- claims

\* C1 (as claimed): the request count of the consolidated result is the
\* number of HTTP requests issued for the author, the rescue request included.
C1_RequestCountIsRequestsIssued ==
  Returned => Result._totalRequestsMade = Len(net)

\* C2: a page read with no items and a nonzero advertised total is followed
\* at once by exactly one rescue request, at the same offset with the
\* advertised total as its limit, and by no other request; once the rescue
\* is answered (items, nothing, or a failure) the loop has been left.
C2_RescueInvariant ==
  \A k \in DOMAIN net :
    (PageRead(net[k]) /\ net[k].outcome.items = <<>>
       /\ net[k].outcome.totalItems # 0) =>
      /\ Len(net) = k + 1
      /\ net[k + 1].kind = "rescue"
      /\ net[k + 1].url.startIndex = net[k].url.startIndex
      /\ net[k + 1].url.maxResults = net[k].outcome.totalItems
      /\ net[k + 1].url.q = net[k].url.q
      /\ opc \in {"fetch", "save"}
      /\ opc = "fetch" =>
           fn.pc = (IF net[k + 1].outcome = Pending THEN "rescue" ELSE "final")

\* C2 witness: the second page came back empty with total 45, the rescue
\* brought 7 items, and the call has returned.
C2_Witness ==
  /\ Returned
  /\ Len(net) = 3
  /\ PageRead(net[2]) /\ net[2].outcome.items = <<>>
  /\ net[2].outcome.totalItems = 45
  /\ net[3].outcome.kind = "response" /\ Len(net[3].outcome.items) = 7

\* C3: when the first page advertises a total of 0 the result has no items
\* and reports one request, whatever items that response carried.
C3_ZeroTotalFirstPage ==
  (Returned /\ PageRead(net[1]) /\ net[1].outcome.totalItems = 0) =>
    /\ Result.items = <<>>
    /\ Result._totalFetchedItems = 0
    /\ Result._totalRequestsMade = 1
    /\ Len(net) = 1

\* C3 witness: the first response advertised 0 and carried 5 items.
C3_Witness ==
  /\ Returned
  /\ PageRead(net[1]) /\ net[1].outcome.totalItems = 0
  /\ Len(net[1].outcome.items) = 5

\* C4: after a page response with fewer than 20 items no further regular
\* page request is issued and the offset stays at that page's.
C4_PartialPageEnds ==
  \A k \in DOMAIN net :
    (net[k].kind = "page" /\ net[k].outcome.kind = "response"
       /\ Len(net[k].outcome.items) < 20) =>
      /\ \A j \in DOMAIN net : j > k => net[j].kind # "page"
      /\ opc = "fetch" =>
           /\ fn.pc \in {"rescue", "final"}
           /\ fn.start_index = net[k].url.startIndex

\* C4 witness: the second page carried 5 items while advertising 45, and the
\* call returned 25 items.
C4_Witness ==
  /\ Returned
  /\ Len(net) = 2
  /\ PageRead(net[2]) /\ Len(net[2].outcome.items) = 5
  /\ net[2].outcome.totalItems = 45
  /\ Len(Result.items) = 25

\* C5: the items of the result are the items of the pages accepted in the
\* normal case followed by those of the rescue response, each once; and
\* _totalFetchedItems is their number.
C5_ItemsAreAcceptedItems ==
  /\ opc \in {"fetch", "save"} =>
       ItemsSoFar = Flatten([k \in DOMAIN net |-> Contribution(net[k])])
  /\ Returned =>
       /\ Result._totalFetchedItems = Len(Result.items)
       /\ \A i, j \in DOMAIN Result.items :
            Result.items[i] = Result.items[j] => i = j

\* C5 witness: a full page, an empty page advertising 45, a rescue with 7
\* items: 27 items returned.
C5_Witness ==
  /\ Returned
  /\ Len(net) = 3
  /\ net[3].kind = "rescue"
  /\ Len(Result.items) = 27

\* C6: a failure of regular page request k ends the pagination of that
\* author and nothing else: no request follows it, the script neither exits
\* nor crashes, the call returns, and the items of the result are the items
\* of pages 1 .. k-1 in order; the orchestrator then enters the result in
\* the summary and moves on to the next index.
C6_FailureKeepsItems ==
  \A k \in DOMAIN net :
    PageFailed(net[k]) =>
      /\ Len(net) = k
      /\ opc \in {"fetch", "save"}
      /\ opc = "fetch" => fn.pc = "final"
      /\ ItemsSoFar = CarriedBefore(net, k)
      /\ Len(ItemsSoFar) = (k - 1) * 20
      /\ Returned =>
           /\ Result._totalFetchedItems = (k - 1) * 20
           /\ ENABLED (PersistAuthor /\ idx' = idx + 1 /\ opc' = "loop"
                         /\ summary_data'[Len(summary_data')].totalFetched
                              = (k - 1) * 20)

\* C6 witness: the third page request failed after two full pages, and the
\* call returned the 40 items of those.
C6_Witness ==
  /\ Returned
  /\ Len(net) = 3
  /\ PageFailed(net[3])
  /\ Result.items = ItemsAt(0, 40)

\* Side x of the twin has left its loop.
TwinDone(x) == x.l.pc = "final"

\* The requests of a call state, in issue order.
Requests(cs) == [k \in DOMAIN cs.net |-> [kind |-> cs.net[k].kind, url |-> cs.net[k].url]]

\* C7 (as claimed): two runs whose page responses differ only in the
\* totalItems of pages 2, 3, ... issue the same requests and return the same
\* items.
C7_LaterTotalsNeverMatter ==
  (TwinDone(twin.a) /\ TwinDone(twin.b)) =>
    /\ Requests(twin.a) = Requests(twin.b)
    /\ FinalData(twin.a.l).items = FinalData(twin.b.l).items

\* In every pair of page responses both runs have read so far, the two
\* totals are both zero or both nonzero.
TotalsAgreeOnZero ==
  \A k \in DOMAIN twin.a.net \cap DOMAIN twin.b.net :
    (PageRead(twin.a.net[k]) /\ PageRead(twin.b.net[k])) =>
      (twin.a.net[k].outcome.totalItems = 0
         <=> twin.b.net[k].outcome.totalItems = 0)

\* C7 (amended): when the totals of the later pages differ only among
\* nonzero values, the two runs are at the same place, have issued requests
\* of the same kinds at the same offsets, the regular ones with the same
\* limit and each rescue with the total of its empty page as limit, and have
\* the same items.
C7_LaterTotalsMatterOnlyByZero ==
  TotalsAgreeOnZero =>
    /\ twin.a.l.pc = twin.b.l.pc
    /\ twin.a.l.all_items = twin.b.l.all_items
    /\ FinalData(twin.a.l).items = FinalData(twin.b.l).items
    /\ twin.a.l.start_index = twin.b.l.start_index
    /\ twin.a.l.request_count = twin.b.l.request_count
    /\ Len(twin.a.net) = Len(twin.b.net)
    /\ \A k \in DOMAIN twin.a.net :
         /\ twin.a.net[k].kind = twin.b.net[k].kind
         /\ twin.a.net[k].url.q = twin.b.net[k].url.q
         /\ twin.a.net[k].url.startIndex = twin.b.net[k].url.startIndex
         /\ twin.a.net[k].kind = "page" =>
              twin.a.net[k].url.maxResults = twin.b.net[k].url.maxResults
         /\ twin.a.net[k].kind = "rescue" =>
              /\ twin.a.net[k].url.maxResults = twin.a.net[k - 1].outcome.totalItems
              /\ twin.b.net[k].url.maxResults = twin.b.net[k - 1].outcome.totalItems

\* C7 witness: both runs are done with 25 items; their second pages
\* advertised 7 and 45.
C7_Witness ==
  /\ TwinDone(twin.a) /\ TwinDone(twin.b)
  /\ Len(twin.a.net) = 2 /\ Len(twin.b.net) = 2
  /\ PageRead(twin.a.net[2]) /\ twin.a.net[2].outcome.totalItems = 7
  /\ PageRead(twin.b.net[2]) /\ twin.b.net[2].outcome.totalItems = 45
  /\ Len(twin.a.l.all_items) = 25 /\ Len(twin.b.l.all_items) = 25

\* C8: a rescue request that raises is the last request of the call (no
\* retry); the script neither exits nor crashes, the loop is left, the call
\* returns, and the items are those accumulated before the rescue.
C8_RescueFailureSwallowed ==
  \A k \in DOMAIN net :
    (net[k].kind = "rescue" /\ net[k].outcome.kind = "exception") =>
      /\ Len(net) = k
      /\ opc \in {"fetch", "save"}
      /\ opc = "fetch" => fn.pc = "final" /\ ENABLED ReturnResult
      /\ ItemsSoFar = CarriedBefore(net, k - 1)
      /\ Returned => Result._totalFetchedItems = (k - 2) * 20

\* C8 witness: a full page, an empty page, a rescue that raised; the call
\* returned the 20 items of the first page.
C8_Witness ==
  /\ Returned
  /\ Len(net) = 3
  /\ net[3].kind = "rescue" /\ net[3].outcome.kind = "exception"
  /\ Result.items = ItemsAt(0, 20)

\* C9 (as claimed): no item carried by a response with a non-success status
\* is among the items of the result.
C9_NoItemsFromErrorResponses ==
  \A k \in DOMAIN net :
    (opc \in {"fetch", "save"} /\ net[k].outcome.kind = "response"
       /\ net[k].outcome.status >= 400) =>
      \A i \in DOMAIN net[k].outcome.items, j \in DOMAIN ItemsSoFar :
        ItemsSoFar[j] # net[k].outcome.items[i]

\* C10: the advertised total kept for the result is the totalItems of the
\* first page response (0 when the first request failed), whatever later
\* pages and the rescue response advertise.
C10_TotalIsFirstPages ==
  (opc \in {"fetch", "save"} /\ Len(net) >= 1 /\ net[1].outcome # Pending) =>
    LET first == IF PageRead(net[1]) THEN net[1].outcome.totalItems ELSE 0
    IN  IF Returned THEN Result._totalQueriedItems = first
        ELSE fn.initial_total_estimate = first

\* C10 witness: the first page advertised 7, the second, empty, 45, the
\* rescue response 0; the result reports 7.
C10_Witness ==
  /\ Returned
  /\ Len(net) = 3
  /\ net[1].outcome.totalItems = 7
  /\ net[2].outcome.totalItems = 45
  /\ net[3].outcome.kind = "response" /\ net[3].outcome.totalItems = 0
  /\ Result._totalQueriedItems = 7

\* C11: the k-th regular page request is at offset (k-1)*20 with limit 20,
\* and a page request after the first is issued only when the page before
\* it was read with exactly 20 items and a nonzero advertised total; the
\* result counts the regular page requests.
C11_OffsetsAdvanceByPageSize ==
  /\ \A j \in DOMAIN net :
       net[j].kind = "page" =>
         /\ net[j].url.startIndex = (j - 1) * 20
         /\ net[j].url.maxResults = 20
         /\ j > 1 =>
              /\ PageRead(net[j - 1])
              /\ Len(net[j - 1].outcome.items) = 20
              /\ net[j - 1].outcome.totalItems # 0
  /\ Returned =>
       Result._totalRequestsMade
         = Cardinality({j \in DOMAIN net : net[j].kind = "page"})

\* C11 witness: 20 items (total 45), then 5 items at offset 20: 25 items
\* and 2 requests.
C11_Witness ==
  /\ Returned
  /\ Len(net) = 2
  /\ PageRead(net[1]) /\ Len(net[1].outcome.items) = 20
  /\ net[1].outcome.totalItems = 45
  /\ net[2].url.startIndex = 20
  /\ PageRead(net[2]) /\ Len(net[2].outcome.items) = 5
  /\ Len(Result.items) = 25
  /\ Result._totalRequestsMade = 2

\* The request of the exchange failed in transport.
TransportFailed(e) ==
  PageFailed(e) \/ (e.kind = "rescue" /\ e.outcome.kind = "exception")

\* C12: a call issues at most one rescue request, only right after a page
\* read with no items and a nonzero total, and issues no request at all
\* after a request that failed.
C12_NoRetry ==
  /\ Cardinality({k \in DOMAIN net : net[k].kind = "rescue"}) <= 1
  /\ \A k \in DOMAIN net :
       /\ net[k].kind = "rescue" =>
            /\ k > 1
            /\ PageRead(net[k - 1])
            /\ net[k - 1].outcome.items = <<>>
            /\ net[k - 1].outcome.totalItems # 0
       /\ TransportFailed(net[k]) =>
            /\ Len(net) = k
            /\ opc = "fetch" => fn.pc = "final"

\* C12 witness: the first page was empty with total 7, the rescue came back
\* with a non-success status and nothing, and the call returned after
\* those two requests.
C12_Witness ==
  /\ Returned
  /\ Len(net) = 2
  /\ net[2].kind = "rescue"
  /\ net[2].outcome.kind = "response" /\ net[2].outcome.status = 400
  /\ net[2].outcome.items = <<>>
  /\ Result.items = <<>>

\* The labels of the authors among the first n entries of the list that have a
\* label, in the list's order.
Processed(n) ==
  LET P[k \in 0..n] ==
        IF k = 0 THEN <<>>
        ELSE IF "authorLabel" \in all_authors[k].keys
             THEN Append(P[k - 1], NameOf(all_authors[k].authorLabel))
             ELSE P[k - 1]
  IN P[n]

\* The labels of the entries of a summary or of the lines of a log.
SummaryLabels == [k \in DOMAIN summary_data |-> summary_data[k].authorLabel]
LogLabels == [k \in DOMAIN log |-> log[k].author_name]

\* The set of the filenames whose write failed.
FailedFiles == {printed[k] : k \in DOMAIN printed}

\* C13: an output file that cannot be written does not stop the batch: the
\* failure is printed, the author's summary entry and log line are written
\* all the same, the loop goes on to the next author, and the batch stops
\* early only on the log's write, never on the output file's.
C13_SaveFailureDoesNotStopBatch ==
  /\ opc \in {"loop", "fetch", "save", "done"} =>
       /\ SummaryLabels = Processed(idx)
       /\ LogLabels = Processed(idx)
  /\ \A k \in DOMAIN summary_data :
       /\ summary_data[k].outputFile \in DOMAIN files \cup FailedFiles
       /\ ~(summary_data[k].outputFile \in DOMAIN files
            /\ summary_data[k].outputFile \in FailedFiles)
  /\ Len(printed) + Cardinality(DOMAIN files) = Len(summary_data)
  /\ opc = "crashed" =>
       /\ SummaryLabels = Processed(idx + 1)
       /\ Len(log) = Len(summary_data) - 1
  /\ opc = "done" => idx = Len(all_authors)

\* C13 witness: the first author's file could not be written, and the batch
\* finished with both authors in the summary and the log and the second
\* author's file on disk.
C13_Witness ==
  /\ opc = "done"
  /\ Len(summary_data) = 2 /\ Len(log) = 2
  /\ printed = <<summary_data[1].outputFile>>
  /\ DOMAIN files = {summary_data[2].outputFile}
  /\ summary_file # <<>>

\* C14: at most one request is in flight, and it is the last one of the
\* call in progress; every request of a call is for the author of the
\* current iteration; and while an author is being fetched every labelled
\* author before it has its summary entry, its log line and its file written
\* (or the failure of that write printed).
C14_StrictlySequential ==
  /\ \A k \in DOMAIN net :
       net[k].outcome = Pending =>
         /\ k = Len(net)
         /\ opc = "fetch"
         /\ fn.pc \in {"await", "rescue"}
  /\ opc \in {"fetch", "save"} =>
       /\ idx < Len(all_authors)
       /\ \A k \in DOMAIN net :
            net[k].url.q = Url(quote(author_entry.authorLabel), 20, 0).q
       /\ SummaryLabels = Processed(idx)
       /\ LogLabels = Processed(idx)
       /\ Cardinality(DOMAIN files \cup FailedFiles) = Len(Processed(idx))
  /\ opc \in {"setup", "loop", "done", "exit", "crashed"} => net = <<>>

\* C14 witness: the second author's first request is in flight, and the first
\* author's entry, log line and file are there.
C14_Witness ==
  /\ opc = "fetch"
  /\ idx = 1
  /\ Len(net) = 1 /\ net[1].outcome = Pending
  /\ Len(summary_data) = 1 /\ Len(log) = 1
  /\ summary_data[1].outputFile \in DOMAIN files
  /\ net[1].url.q # Url(quote(all_authors[1].authorLabel), 20, 0).q

\* C15: without the credential no request is issued and nothing is written:
\* the run ends at once.
C15_FailClosedWithoutKey ==
  ~API_KEY =>
    /\ opc \in {"setup", "exit"}
    /\ net = <<>>
    /\ fn = NoCall
    /\ files = <<>>
    /\ log = <<>>
    /\ summary_data = <<>>
    /\ summary_file = <<>>

\* C15 witness: the run ended on the missing credential.
C15_Witness == ~API_KEY /\ opc = "exit"

\* ---- vocabulary of the parser's claims

\* The item of the last iteration of the for loop.
LastItem == items_of(data)[item_index]

\* An iteration of the for loop has run.
Iterated == ppc \in {"loop", "returned"} /\ item_index > 0

\* The last iteration ended in the except clause of the loop.
IterationRaised ==
  /\ Iterated
  /\ parse_errors # <<>>
  /\ parse_errors[Len(parse_errors)] = item_index - 1

\* The last iteration included its item and mapped it to a record.
Mapped == Iterated /\ include_item /\ ~IterationRaised

\* accessInfo.pdf.isAvailable is there and true.
PdfFlagTrue(item) ==
  /\ "accessInfo" \in DOMAIN item
  /\ "pdf" \in DOMAIN item.accessInfo
  /\ "isAvailable" \in DOMAIN item.accessInfo.pdf
  /\ item.accessInfo.pdf.isAvailable = TRUE

\* accessInfo.pdf has a downloadLink.
LinkPresent(item) ==
  /\ "accessInfo" \in DOMAIN item
  /\ "pdf" \in DOMAIN item.accessInfo
  /\ "downloadLink" \in DOMAIN item.accessInfo.pdf

\* saleInfo.saleability is there and reads "free" whatever the case.
SaleabilityFree(item) ==
  /\ "saleInfo" \in DOMAIN item
  /\ "saleability" \in DOMAIN item.saleInfo
  /\ lower(item.saleInfo.saleability) = <<"f", "r", "e", "e">>

\* The inclusion predicate as the specification words it.
Passes(item) == (PdfFlagTrue(item) /\ LinkPresent(item)) \/ SaleabilityFree(item)

\* The authors of the item, none when the field is absent.
AuthorsOf(item) ==
  IF "volumeInfo" \in DOMAIN item /\ "authors" \in DOMAIN item.volumeInfo
  THEN item.volumeInfo.authors ELSE <<>>

\* The target author's name is one of the item's authors.
TargetListed(item) == \E k \in DOMAIN AuthorsOf(item) : AuthorsOf(item)[k] = target_author

\* The field of volumeInfo or saleInfo, "" when it is absent.
FieldOr(item, section, field, default) ==
  IF section \in DOMAIN item /\ field \in DOMAIN item[section]
  THEN item[section][field] ELSE default

\* C16: the verdict of should_include_item on an item is true exactly when
\* (pdf.isAvailable is true and pdf has a downloadLink) or saleability is
\* "free" in any case, absent fields counting as false.
C16_InclusionPredicate ==
  Iterated => include_item = Passes(LastItem)

\* C16 witness: an item without accessInfo whose saleability is the lower
\* case "free" was included.
C16_Witness ==
  /\ Iterated
  /\ include_item
  /\ "accessInfo" \notin DOMAIN LastItem
  /\ FieldOr(LastItem, "saleInfo", "saleability", <<>>) = <<"f", "r", "e", "e">>

\* C17: the records of the two outputs are records of items that pass the
\* inclusion predicate, no item mapped twice and no record from an item
\* that does not pass; every item gone through without a record is counted
\* as excluded, every item that does not pass among them.
C17_OnlyIncludedItemsAreMapped ==
  LET passed == {k \in 1..item_index : Passes(items_of(data)[k])}
      outputs == matches_records \o non_matches_records
  IN /\ Len(outputs) = Cardinality(passed) - Len(parse_errors)
     /\ excluded_count = item_index - Len(outputs)
     /\ \A n \in DOMAIN parse_errors : parse_errors[n] + 1 \in passed
     /\ \A n \in DOMAIN outputs :
          \E k \in passed :
            outputs[n] = parse_item(items_of(data)[k], outputs[n]["Date Added"])
     /\ (Iterated /\ ~Passes(LastItem)) => ~include_item

\* C17 witness: a file of three items was parsed, the second of them not
\* passing: one record in each output and one item excluded.
C17_Witness ==
  /\ ppc = "returned"
  /\ item_index = 3
  /\ items_of(data) = <<FreeItem, ClosedItem, PdfItem>>
  /\ Len(matches_records) = 1
  /\ Len(non_matches_records) = 1
  /\ excluded_count = 1

\* C18 as stated: an included item is a match exactly when the target
\* author's name is in its authors list, whatever the target, the empty
\* one of a file without a request URL included.
C18_MatchIffListed ==
  Mapped => is_a_match = TargetListed(LastItem)

\* C18: an included item is a match exactly when no target author was
\* detected or the target author's name is in its authors list; its record
\* goes to the matches when it is a match and to the non-matches when not.
C18_MatchIffListedOrNoTarget ==
  Mapped =>
    /\ is_a_match = (target_author = <<>> \/ TargetListed(LastItem))
    /\ IF is_a_match
       THEN matches_records # <<>> /\ matches_records[Len(matches_records)] = record[1]
       ELSE non_matches_records # <<>>
            /\ non_matches_records[Len(non_matches_records)] = record[1]

\* C18 witness: no target author was detected, and an included item by
\* somebody else alone went to the matches.
C18_Witness ==
  /\ Iterated
  /\ include_item
  /\ target_author = <<>>
  /\ AuthorsOf(LastItem) = <<DiazName>>
  /\ is_a_match
  /\ Len(matches_records) = 1

\* The URL the priority order gives: the download link when one exists,
\* else for a free item the synthesized URL (the buy link, then the info
\* link, when the slug or the id is missing), else the info link.
PriorityUrl(item, link_exists) ==
  LET info == FieldOr(item, "volumeInfo", "infoLink", "")
      slug == create_title_slug(FieldOr(item, "volumeInfo", "title", <<>>))
      id == IF "id" \in DOMAIN item THEN item.id ELSE ""
  IN IF link_exists THEN item.accessInfo.pdf.downloadLink
     ELSE IF SaleabilityFree(item)
     THEN IF slug # <<>> /\ id # ""
          THEN "https://books.google.com/books/download/" \o Str(slug)
                 \o ".pdf?id=" \o id \o "&output=pdf"
          ELSE FieldOr(item, "saleInfo", "buyLink", info)
     ELSE info

\* C19: the Url of the record of an included item is the one the priority
\* order gives, for every combination of isAvailable, downloadLink and
\* saleability; a download link "exists" when pdf has one, or, read the
\* other way, when pdf has one and isAvailable is true.
C19_UrlFollowsPriorityOrder ==
  Mapped =>
    \/ record[1].Url = PriorityUrl(LastItem, LinkPresent(LastItem))
    \/ record[1].Url =
         PriorityUrl(LastItem, PdfFlagTrue(LastItem) /\ LinkPresent(LastItem))

\* The item of the example: free, no PDF available, title "Flora del País",
\* id "abc123".
IsFloraExample(item) ==
  /\ ~PdfFlagTrue(item)
  /\ SaleabilityFree(item)
  /\ FieldOr(item, "volumeInfo", "title", <<>>) = FloraDelPais
  /\ "id" \in DOMAIN item /\ item.id = "abc123"

\* C20 as stated: the URL synthesized for the example has the slug
\* "flora_del_pais", the accented letter reduced to a plain one.
C20_SlugFoldsAccents ==
  (Mapped /\ IsFloraExample(LastItem)) =>
    record[1].Url =
      "https://books.google.com/books/download/flora_del_pais.pdf?id=abc123&output=pdf"

\* C20: the URL synthesized for the example has the slug "flora_del_país":
\* lower case, the blanks as underscores, the accented letter kept.
C20_SlugKeepsAccents ==
  (Mapped /\ IsFloraExample(LastItem)) =>
    record[1].Url =
      "https://books.google.com/books/download/flora_del_pa" \o i_acute
         \o "s.pdf?id=abc123&output=pdf"

\* C20 witness: the example was parsed: isAvailable false, saleability
\* "FREE", and the URL with the slug that keeps the accent.
C20_Witness ==
  /\ Iterated
  /\ include_item
  /\ IsFloraExample(LastItem)
  /\ "accessInfo" \in DOMAIN LastItem
  /\ LastItem.accessInfo = [pdf |-> [isAvailable |-> FALSE]]
  /\ LastItem.saleInfo.saleability = <<"F", "R", "E", "E">>
  /\ record[1].Url =
       "https://books.google.com/books/download/flora_del_pa" \o i_acute
         \o "s.pdf?id=abc123&output=pdf"

\* The name as the reordering rule gives it: unchanged when it has a comma,
\* else the last word, a comma and the other words, else unchanged.
ReorderedName(name) ==
  LET words == split(name)
  IN IF \E k \in DOMAIN name : name[k] = "," THEN name
     ELSE IF Len(words) >= 2
     THEN words[Len(words)] \o <<",", " ">> \o join(<<" ">>, SubSeq(words, 1, Len(words) - 1))
     ELSE name

\* C21: the Author of a record is the item's authors, each reordered by the
\* rule (a name with a comma unchanged), joined with "; " in their order.
C21_AuthorsReordered ==
  Mapped =>
    record[1].Author =
      join(<<";", " ">>, [k \in DOMAIN AuthorsOf(LastItem) |->
                      ReorderedName(AuthorsOf(LastItem)[k])])

\* The records of both outputs.
Outputs == matches_records \o non_matches_records

\* The two records have the same columns and agree on every column other
\* than the two timestamps.
AgreeButTimestamps(r1, r2) ==
  /\ DOMAIN r1 = DOMAIN r2
  /\ \A column \in DOMAIN r1 \ {"Date Added", "Date Modified"} :
       r1[column] = r2[column]

\* C22: mapping an item again gives the same record but for Date Added and
\* Date Modified: the record of the item just mapped agrees, but for them,
\* with the record of the same item mapped at another time, and the records
\* of a file that is one item over and over agree with each other.
C22_MappingIdempotentButTimestamps ==
  /\ Mapped => AgreeButTimestamps(record[1], parse_item(LastItem, 0))
  /\ (\A k \in 1..item_index : items_of(data)[k] = items_of(data)[1]) =>
       \A a, b \in DOMAIN Outputs : AgreeButTimestamps(Outputs[a], Outputs[b])

\* C22 witness: the same item was mapped twice, at two times: the two
\* records differ in Date Added and agree on the rest.
C22_Witness ==
  /\ ppc = "returned"
  /\ items_of(data) = <<FullItem, FullItem>>
  /\ Len(matches_records) = 2
  /\ matches_records[1]["Date Added"] # matches_records[2]["Date Added"]
  /\ AgreeButTimestamps(matches_records[1], matches_records[2])

\* The columns of the header, as a set.
HeaderColumns == {csv_headers[k] : k \in DOMAIN csv_headers}

\* The columns the mapping fills.
MappedColumns ==
  {"Item Type", "Publication Year", "Author", "Title", "ISBN", "Url", "Date",
   "Date Added", "Date Modified", "Num Pages", "Publisher", "Language",
   "Archive", "Extra", "Notes", "File Attachments"}

\* C24: the columns of every record are the columns of the CSV header, no
\* column of the header twice, and every column the mapping does not fill
\* is the empty string.
C24_RecordHasHeaderColumns ==
  /\ Cardinality(HeaderColumns) = Len(csv_headers)
  /\ \A n \in DOMAIN Outputs :
       /\ DOMAIN Outputs[n] = HeaderColumns
       /\ \A column \in HeaderColumns \ MappedColumns : Outputs[n][column] = ""
  /\ Mapped => DOMAIN record[1] = HeaderColumns

\* C24 witness: the item with every field was mapped: its record has the
\* columns of the header, Key empty and Publisher filled.
C24_Witness ==
  /\ Iterated
  /\ include_item
  /\ LastItem = FullItem
  /\ DOMAIN record[1] = HeaderColumns
  /\ record[1]["Key"] = ""
  /\ record[1]["Publisher"] = "Monte Avila"

\* The item with accessInfo.pdf.isAvailable changed to true and nothing
\* else changed.
MadeAvailable(item) ==
  With(item, "accessInfo",
       With(item.accessInfo, "pdf",
            With(item.accessInfo.pdf, "isAvailable", TRUE)))

\* The item has a download link and its availability flag is false.
LinkedButUnavailable(item) ==
  /\ LinkPresent(item)
  /\ "isAvailable" \in DOMAIN item.accessInfo.pdf
  /\ item.accessInfo.pdf.isAvailable = FALSE

\* C23: an item with a download link and the availability flag false that
\* the inclusion predicate accepts is still accepted with the flag changed
\* to true.
C23_InclusionMonotonic ==
  (Iterated /\ LinkedButUnavailable(LastItem) /\ include_item) =>
    should_include_item(MadeAvailable(LastItem))

\* C23 witness: an item with a link and the flag false was included, being
\* free, and is included with the flag true as well.
C23_Witness ==
  /\ Iterated
  /\ LinkedButUnavailable(LastItem)
  /\ include_item
  /\ SaleabilityFree(LastItem)
  /\ should_include_item(MadeAvailable(LastItem))

\* The slug is at most 100 characters long, neither starts nor ends with an
\* underscore and has no two underscores side by side.
SlugWellFormed(slug) ==
  /\ Len(slug) <= 100
  /\ slug # <<>> => (slug[1] # "_" /\ slug[Len(slug)] # "_")
  /\ \A k \in 1..(Len(slug) - 1) : ~(slug[k] = "_" /\ slug[k + 1] = "_")

\* The item was mapped and its URL was built from the slug of its title.
SlugUsed ==
  /\ Mapped
  /\ is_free(LastItem)
  /\ ~pdf_available(LastItem)

\* C25: the slug of every title is at most 100 characters long, neither
\* starts nor ends with an underscore and has no two underscores side by
\* side.
C25_SlugWellFormed ==
  SlugUsed =>
    SlugWellFormed(create_title_slug(FieldOr(LastItem, "volumeInfo", "title", <<>>)))

\* C26: a missing or malformed field of an item is made up for by an empty
\* default: every item gone through that passes the inclusion predicate has
\* exactly one record in the matches or the non-matches, and nothing is
\* printed as an error.
C26_EveryPassingItemYieldsARecord ==
  LET passed == {k \in 1..item_index : Passes(items_of(data)[k])}
  IN /\ Len(Outputs) = Cardinality(passed)
     /\ parse_errors = <<>>

\* The exchanges of the call that are regular page requests.
RegularRequests == {k \in DOMAIN net : net[k].kind = "page"}

\* The call issued a rescue request.
RescueIssued == \E k \in DOMAIN net : net[k].kind = "rescue"

\* C28: at return _requestUrls has the URL of every request the call
\* attempted, regular or rescue, failed or not, in the order of issue; its
\* length is the number of regular requests, which is _totalRequestsMade,
\* plus one when a rescue was issued; getRequest is its first entry.
C28_RequestLogCompleteAndOrdered ==
  Returned =>
    /\ Len(Result._requestUrls) = Len(net)
    /\ \A k \in DOMAIN net : Result._requestUrls[k] = net[k].url
    /\ Cardinality(RegularRequests) = Result._totalRequestsMade
    /\ Len(Result._requestUrls) =
         Cardinality(RegularRequests) + (IF RescueIssued THEN 1 ELSE 0)
    /\ Result._requestUrls # <<>>
    /\ Result.getRequest = <<Result._requestUrls[1]>>

\* C28 witness: a call returned after a full page, an empty page and a
\* rescue request that failed: three entries, the last one the rescue's.
C28_Witness ==
  /\ Returned
  /\ Len(net) = 3
  /\ net[3].kind = "rescue"
  /\ TransportFailed(net[3])
  /\ Len(Result._requestUrls) = 3
  /\ Result._requestUrls[3] = net[3].url
  /\ Result._requestUrls[3] # Result._requestUrls[2]

\* The exchange is a regular page request that failed, or was answered
\* with a zero total or with fewer than BATCH_SIZE items.
EndsPagination(e) ==
  \/ PageFailed(e)
  \/ /\ PageRead(e)
     /\ e.outcome.totalItems = 0 \/ Len(e.outcome.items) < BATCH_SIZE

\* The exchange is a regular page request answered with a full page and a
\* nonzero total.
FullPage(e) ==
  /\ PageRead(e)
  /\ e.outcome.totalItems # 0
  /\ Len(e.outcome.items) = BATCH_SIZE

\* C27: a call in which a page request failed or was answered with a zero
\* total or with fewer than 20 items comes to its end; a call that is back
\* at the top of the loop for a further request has had nothing but full
\* pages with nonzero totals.
C27_PaginationTerminates ==
  /\ (opc = "fetch" /\ \E k \in DOMAIN net : EndsPagination(net[k])) ~> (opc # "fetch")
  /\ []((opc = "fetch" /\ fn.pc = "request") =>
          \A k \in DOMAIN net : FullPage(net[k]))

\* C27 witness: a call returned after a full page followed by a page of
\* fewer than 20 items.
C27_Witness ==
  /\ Returned
  /\ Len(net) = 2
  /\ FullPage(net[1])
  /\ PageRead(net[2])
  /\ Len(net[2].outcome.items) < BATCH_SIZE
  /\ Len(net[2].outcome.items) > 0

\* The note and attachment elements of the tree, by their places in it.
GeneratedElements ==
  {k \in DOMAIN converter.root :
     converter.root[k].tag \in {"bib:Memo", "z:Attachment"}}

\* The references the items of the tree hold.
ItemReferences ==
  UNION {{converter.root[k].refs[n] : n \in DOMAIN converter.root[k].refs} :
           k \in DOMAIN converter.root}

\* C29: after any number of rows the rdf:about identifiers of the note and
\* attachment elements are pairwise distinct, and every isReferencedBy or
\* link reference of an item is the identifier of exactly one of them.
C29_GeneratedIdsDistinct ==
  /\ \A a, b \in GeneratedElements :
       a # b => converter.root[a].about # converter.root[b].about
  /\ \A r \in ItemReferences :
       Cardinality({k \in GeneratedElements :
                      converter.root[k].about = r.resource}) = 1

====
